---- MODULE Spec2Model ----
(***************************************************************************)
(* Model of chemschematicdiagramextractor/model.py: the rectangle          *)
(* predicates (Rect.contains, Rect.overlaps), the repeating property of    *)
(* Panel, and the Graph class with its Kruskal minimum-spanning-tree scan  *)
(* (addEdge, find, union, kruskal).                                        *)
(***************************************************************************)
EXTENDS Integers, Sequences, FiniteSets, TLC

\* ------------------------------------------------------------------ bounds
\* Largest vertex count V of a Graph built from arbitrary inputs; edge
\* endpoints are drawn from 0..MaxV-1 whatever V is (addEdge validates nothing).
MaxV == 3
\* Largest number of addEdge calls on such a graph.
MaxEdges == 2
\* Edge weights are drawn from 1..MaxW.
MaxW == 1
\* kruskal() calls between two addEdge calls.
MaxCalls == 2
\* Rectangle coordinates are drawn from 0..MaxCoord.
MaxCoord == 2
\* Nested calls the interpreter allows before it raises RecursionError.
RecursionLimit == 12

VARIABLES
    V,          \* Graph.V
    graph,      \* Graph.graph: the list of [u, v, w]
    tag,        \* history: tag[k] is the number of the addEdge call that added graph[k]
    pc,         \* "idle" | "loop" (inside kruskal) | "returned" | "raised"
    i,          \* kruskal: index into the sorted edges (0-based, as in the code)
    e,          \* kruskal: number of accepted edges
    result,     \* kruskal: accepted edges, the return value
    resultTag,  \* history: the addEdge numbers of the accepted edges
    parent,     \* kruskal: parent list, a function on 0..V-1
    rank,       \* kruskal: rank list, a function on 0..V-1
    reads,      \* history: the indices k at which self.graph[k] was read by this call
    calls       \* history: outcomes of the kruskal() calls since the last addEdge

graphVars == <<V, graph, tag, pc, i, e, result, resultTag, parent, rank, reads, calls>>

VARIABLES
    ra,         \* a Rect object
    rb,         \* another Rect object
    ans         \* the last call of contains or overlaps: receiver, argument, value returned

rectVars == <<ra, rb, ans>>

VARIABLES
    kind,       \* the class of the Panel object: "Panel", "Diagram" or "Label"
    repeating_, \* the attribute self._repeating
    pcP,        \* "idle" | "reading" (inside the getter of repeating)
    depth,      \* nested activations of the getter of repeating
    readOutcome \* what the last read of .repeating ended in: a value or an exception

panelVars == <<kind, repeating_, pcP, depth, readOutcome>>

vars == <<graphVars, rectVars, panelVars>>

\* ------------------------------------------------------------ Graph helpers

\* A list of length 0 (parent, rank before the first call).
EmptyList == [n \in {} |-> 0]

\* The worked example of the documentation: four vertices, four edges.
ExampleEdges == << <<0, 1, 1>>, <<1, 2, 2>>, <<0, 2, 3>>, <<2, 3, 1>> >>

ExampleV == Len(ExampleEdges)

\* The complete graph on CompleteV vertices: a caller that enumerates the pairs
\* a < b in order and adds each once, with a weight of CompleteWeights.
CompleteV == ExampleV + 1

CompleteWeights == {1, 2}

RECURSIVE PairsFrom(_, _, _)
PairsFrom(a, b, n) ==
    IF a >= n - 1 THEN <<>>
    ELSE IF b >= n THEN PairsFrom(a + 1, a + 2, n)
    ELSE << <<a, b>> >> \o PairsFrom(a, b + 1, n)

CompletePairs == PairsFrom(0, 1, CompleteV)

\* Vertex counts a Graph is constructed with.
Sizes == (0 .. MaxV) \cup {ExampleV, CompleteV}

\* The [u, v, w] a caller passes to addEdge as call number k + 1: anything over
\* the small domain for the graphs of at most MaxV vertices, the example's
\* edges for the example graph, the next pair for the complete graph.
General(n) == n \in 0 .. MaxV

Inputs(n, k) ==
    IF General(n)
    THEN (0 .. MaxV - 1) \X (0 .. MaxV - 1) \X (1 .. MaxW)
    ELSE IF n = ExampleV
    THEN {ExampleEdges[j] : j \in 1 .. Len(ExampleEdges)}
    ELSE {<<CompletePairs[j][1], CompletePairs[j][2], w>> :
              j \in {k + 1} \cap (1 .. Len(CompletePairs)), w \in CompleteWeights}

EdgeLimit(n) ==
    IF General(n) THEN MaxEdges
    ELSE IF n = ExampleV THEN Len(ExampleEdges)
    ELSE Len(CompletePairs)

\* sorted(self.graph, key=lambda item: item[2]): a stable sort by weight.
\* s is a stably sorted list of indices into g, k a later index: k goes
\* behind every index whose weight is not larger.
RECURSIVE InsertByKeyTiesFirst(_, _, _)
InsertByKeyTiesFirst(g, s, k) ==
    IF s = <<>> THEN <<k>>
    ELSE IF g[Head(s)][3] < g[k][3]
         THEN <<Head(s)>> \o InsertByKeyTiesFirst(g, Tail(s), k)
         ELSE <<k>> \o s

RECURSIVE InsertByKey(_, _, _)
InsertByKey(g, s, k) ==
    IF s = <<>> THEN <<k>>
    ELSE IF g[Head(s)][3] <= g[k][3]
         THEN <<Head(s)>> \o InsertByKey(g, Tail(s), k)
         ELSE <<k>> \o s

RECURSIVE SortedIdxUpTo(_, _)
SortedIdxUpTo(g, n) ==
    IF n = 0 THEN <<>> ELSE InsertByKey(g, SortedIdxUpTo(g, n - 1), n)

IdentityIdx(g) == [k \in 1 .. Len(g) |-> k]

\* The permutation the sort applies: position p of the sorted list holds g[SortedIdx(g)[p]].
SortedIdx(g) == SortedIdxUpTo(g, Len(g))

Permute(s, perm) == [k \in 1 .. Len(s) |-> s[perm[k]]]

\* parent.append(node) / rank.append(0) for node in range(self.V), into the
\* lists that parent, rank = [], [] made empty
LeakedParent == IF DOMAIN parent = 0 .. V - 1 THEN parent ELSE [n \in 0 .. V - 1 |-> n]

InitParent == [n \in 0 .. V - 1 |-> n]

InitRank == [n \in 0 .. V - 1 |-> 0]

\* Graph.find: climb the parent links up to a self-parented entry.
RECURSIVE find(_, _)
find(p, x) == IF p[x] = x THEN x ELSE find(p, p[x])

\* Graph.union, the parent list it leaves.
unionParent(p, r, x, y) ==
    LET xroot == find(p, x)
        yroot == find(p, y)
    IN  IF r[xroot] < r[yroot] THEN [p EXCEPT ![xroot] = yroot]
        ELSE [p EXCEPT ![yroot] = xroot]

\* Graph.union, the rank list it leaves.
unionRank(p, r, x, y) ==
    LET xroot == find(p, x)
        yroot == find(p, y)
    IN  IF r[xroot] < r[yroot] \/ r[xroot] > r[yroot] THEN r
        ELSE [r EXCEPT ![xroot] = r[xroot] + 1]

\* while e < self.V - 1
LoopCondUntilExhausted == i < Len(graph)

LoopCondOffByOne == e <= V - 1

LoopCond == e < V - 1

\* if x != y
AcceptsAlways(x, y) == TRUE

Accepts(x, y) == x # y

\* parent[u] is defined (list index in range; the inputs are never negative)
InList(u) == u \in 0 .. V - 1

Outcome(how, value) == [how |-> how, value |-> value]

\* ------------------------------------------------------------ Graph actions

\* Graph(vertices)
InitGraph ==
    /\ V \in Sizes
    /\ graph = <<>>
    /\ tag = <<>>
    /\ pc = "idle"
    /\ i = 0
    /\ e = 0
    /\ result = <<>>
    /\ resultTag = <<>>
    /\ parent = EmptyList
    /\ rank = EmptyList
    /\ reads = {}
    /\ calls = <<>>

\* Graph.addEdge(u, v, w), called between kruskal() calls.
addEdge(u, v, w) ==
    /\ pc # "loop"
    /\ Len(graph) < EdgeLimit(V)
    /\ graph' = Append(graph, <<u, v, w>>)
    /\ tag' = Append(tag, Len(tag) + 1)
    /\ pc' = "idle"
    /\ i' = 0
    /\ e' = 0
    /\ result' = <<>>
    /\ resultTag' = <<>>
    /\ parent' = EmptyList
    /\ rank' = EmptyList
    /\ reads' = {}
    /\ calls' = <<>>
    /\ UNCHANGED V
    /\ UNCHANGED <<rectVars, panelVars>>

\* kruskal(), from the call to the first test of the while condition.
kruskalStart ==
    /\ pc # "loop"
    /\ Len(calls) < MaxCalls
    /\ result' = <<>>
    /\ resultTag' = <<>>
    /\ i' = 0
    /\ e' = 0
    /\ graph' = Permute(graph, SortedIdx(graph))
    /\ tag' = Permute(tag, SortedIdx(graph))
    /\ parent' = InitParent
    /\ rank' = InitRank
    /\ reads' = {}
    /\ pc' = "loop"
    /\ UNCHANGED <<V, calls>>
    /\ UNCHANGED <<rectVars, panelVars>>

\* One iteration of the while loop whose read self.graph[i] is out of range.
kruskalReadPastEnd ==
    /\ pc = "loop"
    /\ LoopCond
    /\ i >= Len(graph)
    /\ pc' = "raised"
    /\ calls' = Append(calls, Outcome("IndexError", <<>>))
    /\ UNCHANGED <<V, graph, tag, i, e, result, resultTag, parent, rank, reads>>
    /\ UNCHANGED <<rectVars, panelVars>>

\* One iteration of the while loop in which find indexes parent out of range.
kruskalBadVertex ==
    /\ pc = "loop"
    /\ LoopCond
    /\ i < Len(graph)
    /\ LET u == graph[i + 1][1]
           v == graph[i + 1][2]
       IN  ~(InList(u) /\ InList(v))
    /\ i' = i + 1
    /\ reads' = reads \cup {i}
    /\ pc' = "raised"
    /\ calls' = Append(calls, Outcome("IndexError", <<>>))
    /\ UNCHANGED <<V, graph, tag, e, result, resultTag, parent, rank>>
    /\ UNCHANGED <<rectVars, panelVars>>

\* One iteration of the while loop that runs to its end.
kruskalIterate ==
    /\ pc = "loop"
    /\ LoopCond
    /\ i < Len(graph)
    /\ LET u == graph[i + 1][1]
           v == graph[i + 1][2]
           w == graph[i + 1][3]
       IN  /\ InList(u) /\ InList(v)
           /\ LET x == find(parent, u)
                  y == find(parent, v)
              IN  IF Accepts(x, y)
                  THEN /\ e' = e + 1
                       /\ result' = Append(result, <<u, v, w>>)
                       /\ resultTag' = Append(resultTag, tag[i + 1])
                       /\ parent' = unionParent(parent, rank, x, y)
                       /\ rank' = unionRank(parent, rank, x, y)
                  ELSE UNCHANGED <<e, result, resultTag, parent, rank>>
    /\ i' = i + 1
    /\ reads' = reads \cup {i}
    /\ UNCHANGED <<V, graph, tag, pc, calls>>
    /\ UNCHANGED <<rectVars, panelVars>>

\* The while condition is false: return result.
kruskalReturn ==
    /\ pc = "loop"
    /\ ~LoopCond
    /\ pc' = "returned"
    /\ calls' = Append(calls, Outcome("return", result))
    /\ UNCHANGED <<V, graph, tag, i, e, result, resultTag, parent, rank, reads>>
    /\ UNCHANGED <<rectVars, panelVars>>

NextGraph ==
    \/ \E edge \in Inputs(V, Len(graph)) : addEdge(edge[1], edge[2], edge[3])
    \/ kruskalStart
    \/ kruskalReadPastEnd
    \/ kruskalBadVertex
    \/ kruskalIterate
    \/ kruskalReturn

\* ------------------------------------------------------------------- Rect

\* Rect(left, right, top, bottom); the constructor validates nothing.
Rect(l, r, t, b) == [left |-> l, right |-> r, top |-> t, bottom |-> b]

Coords == 0 .. MaxCoord

Rects == {Rect(l, r, t, b) : l \in Coords, r \in Coords, t \in Coords, b \in Coords}

\* the builtins min and max on two numbers
min(x, y) == IF y < x THEN y ELSE x

max(x, y) == IF y > x THEN y ELSE x

\* Rect.width, Rect.height
width(self) == self.right - self.left

height(self) == self.bottom - self.top

\* Rect.contains
containsStrictLeft(self, other_rect) ==
    /\ other_rect.left > self.left
    /\ other_rect.right <= self.right
    /\ other_rect.top >= self.top
    /\ other_rect.bottom <= self.bottom

contains(self, other_rect) ==
    /\ other_rect.left >= self.left
    /\ other_rect.right <= self.right
    /\ other_rect.top >= self.top
    /\ other_rect.bottom <= self.bottom

\* Rect.overlaps
overlapsInclusive(self, other_rect) ==
    /\ min(self.right, other_rect.right) >= max(self.left, other_rect.left)
    /\ min(self.bottom, other_rect.bottom) >= max(self.top, other_rect.top)

overlaps(self, other_rect) ==
    /\ min(self.right, other_rect.right) > max(self.left, other_rect.left)
    /\ min(self.bottom, other_rect.bottom) > max(self.top, other_rect.top)

Answer(op, self, other_rect, value) ==
    [op |-> op, self |-> self, other |-> other_rect, value |-> value]

NoAnswer == Answer("none", Rect(0, 0, 0, 0), Rect(0, 0, 0, 0), FALSE)

\* Two Rect objects are constructed.
InitRect ==
    /\ ra \in Rects
    /\ rb \in Rects
    /\ ans = NoAnswer

\* No Rect is in use.
RectUnused ==
    /\ ra = Rect(0, 0, 0, 0)
    /\ rb = Rect(0, 0, 0, 0)
    /\ ans = NoAnswer

\* self.contains(other_rect)
callContains(self, other_rect) ==
    /\ ans' = Answer("contains", self, other_rect, contains(self, other_rect))
    /\ UNCHANGED <<ra, rb>>
    /\ UNCHANGED <<graphVars, panelVars>>

\* self.overlaps(other_rect)
callOverlaps(self, other_rect) ==
    /\ ans' = Answer("overlaps", self, other_rect, overlaps(self, other_rect))
    /\ UNCHANGED <<ra, rb>>
    /\ UNCHANGED <<graphVars, panelVars>>

NextRect ==
    \/ \E self \in {ra, rb}, other_rect \in {ra, rb} : callContains(self, other_rect)
    \/ \E self \in {ra, rb}, other_rect \in {ra, rb} : callOverlaps(self, other_rect)

\* ------------------------------------------------------------------ Panel

\* Values a caller assigns to .repeating (nothing is validated).
Values == {"False", "True", "None"}

Kinds == {"Panel", "Diagram", "Label"}

\* Panel.__init__ (Diagram and Label call it through super): self.repeating = False
\* goes through the setter.
InitPanel ==
    /\ kind \in Kinds
    /\ repeating_ = "False"
    /\ pcP = "idle"
    /\ depth = 0
    /\ readOutcome = "none"

\* No Panel is in use.
PanelUnused ==
    /\ kind = "Panel"
    /\ repeating_ = "False"
    /\ pcP = "idle"
    /\ depth = 0
    /\ readOutcome = "none"

\* panel.repeating = value: the setter stores self._repeating.
setRepeating(value) ==
    /\ pcP = "idle"
    /\ repeating_' = value
    /\ readOutcome' = "none"
    /\ UNCHANGED <<kind, pcP, depth>>
    /\ UNCHANGED <<graphVars, rectVars>>

\* A caller reads panel.repeating: the getter is entered.
readRepeating ==
    /\ pcP = "idle"
    /\ pcP' = "reading"
    /\ depth' = 1
    /\ readOutcome' = "none"
    /\ UNCHANGED <<kind, repeating_>>
    /\ UNCHANGED <<graphVars, rectVars>>

\* The getter evaluates self.repeating, which enters the getter again.
getterReenter ==
    /\ pcP = "reading"
    /\ depth < RecursionLimit
    /\ depth' = depth + 1
    /\ UNCHANGED <<kind, repeating_, pcP, readOutcome>>
    /\ UNCHANGED <<graphVars, rectVars>>

\* The nesting reaches the interpreter's limit: RecursionError unwinds every activation.
getterOverflow ==
    /\ pcP = "reading"
    /\ depth >= RecursionLimit
    /\ pcP' = "idle"
    /\ depth' = 0
    /\ readOutcome' = "RecursionError"
    /\ UNCHANGED <<kind, repeating_>>
    /\ UNCHANGED <<graphVars, rectVars>>

NextPanel ==
    \/ \E value \in Values : setRepeating(value)
    \/ readRepeating
    \/ getterReenter
    \/ getterOverflow

\* --------------------------------------------------------- specifications

\* A Graph is built and searched.
Init == InitGraph /\ RectUnused /\ PanelUnused

Next == NextGraph

Spec == Init /\ [][Next]_vars

\* Two rectangles are compared.
InitRects == InitRect /\ InitGraph /\ V = 0 /\ PanelUnused

SpecRect == InitRects /\ [][NextRect]_vars

\* The repeating flag of a Panel is written and read.
InitPanels == InitPanel /\ InitGraph /\ V = 0 /\ RectUnused

SpecPanel == InitPanels /\ [][NextPanel]_vars

\* ------------------------------------------------- reference definitions

\* Every endpoint of every edge of g is a vertex 0..V-1.
InRange(g) == \A k \in 1 .. Len(g) : g[k][1] \in 0 .. V - 1 /\ g[k][2] \in 0 .. V - 1

\* The endpoint pairs of a list of edges.
EdgePairs(g) == {<<g[k][1], g[k][2]>> : k \in 1 .. Len(g)}

\* The vertices reachable from S along the undirected edges E.
RECURSIVE Closure(_, _)
Closure(S, E) ==
    LET N == S \cup {q[2] : q \in {q \in E : q[1] \in S}}
                 \cup {q[1] : q \in {q \in E : q[2] \in S}}
    IN  IF N = S THEN S ELSE Closure(N, E)

\* The edges E connect all of 0..n-1.
Spans(n, E) == n >= 1 /\ (0 .. n - 1) \subseteq Closure({0}, E)

NumComponents(n, E) == Cardinality({Closure({x}, E) : x \in 0 .. n - 1})

RECURSIVE SumW(_)
SumW(g) == IF g = <<>> THEN 0 ELSE Head(g)[3] + SumW(Tail(g))

RECURSIVE SumOver(_, _)
SumOver(g, T) ==
    IF T = {} THEN 0
    ELSE LET k == CHOOSE k \in T : TRUE IN g[k][3] + SumOver(g, T \ {k})

\* The sets of V-1 edge positions of g that form a spanning tree.
SpanningTrees(g) ==
    {T \in SUBSET (1 .. Len(g)) :
        /\ Cardinality(T) = V - 1
        /\ Spans(V, {<<g[k][1], g[k][2]>> : k \in T})}

\* The edges in the order of the addEdge calls.
Inserted == [n \in 1 .. Len(graph) |-> graph[CHOOSE k \in 1 .. Len(graph) : tag[k] = n]]

\* x after n steps along the parent links.
RECURSIVE Climb(_, _, _)
Climb(p, x, n) == IF n = 0 THEN x ELSE Climb(p, p[x], n - 1)

IsForest(p) ==
    /\ DOMAIN p = 0 .. V - 1
    /\ \A x \in 0 .. V - 1 : p[x] \in 0 .. V - 1
    /\ \A x \in 0 .. V - 1 : p[Climb(p, x, V)] = Climb(p, x, V)

Least(S) == CHOOSE x \in S : \A y \in S : x <= y

Greatest(S) == CHOOSE x \in S : \A y \in S : x >= y

\* ------------------------------------------------------------------ claims

\* C1: on a connected graph whose edges join vertices 0..V-1, kruskal() does
\* not fail, and what it returns is V-1 edges of the graph that form a
\* spanning tree whose total weight is the least over all spanning trees.
C1_KruskalMinimumSpanningTree ==
    (V >= 1 /\ InRange(graph) /\ Spans(V, EdgePairs(graph))) =>
        /\ pc # "raised"
        /\ pc = "returned" =>
            /\ Len(result) = V - 1
            /\ \A k \in 1 .. Len(result) :
                   \E j \in 1 .. Len(graph) : tag[j] = resultTag[k] /\ graph[j] = result[k]
            /\ \A j, k \in 1 .. Len(result) : j # k => resultTag[j] # resultTag[k]
            /\ Spans(V, EdgePairs(result))
            /\ \A T \in SpanningTrees(graph) : SumW(result) <= SumOver(graph, T)

\* The complete graph has been searched, and the returned tree beats another
\* spanning tree.
C1_Witness ==
    /\ pc = "returned"
    /\ V = CompleteV
    /\ Len(graph) = Len(CompletePairs)
    /\ InRange(graph)
    /\ Len(result) = V - 1
    /\ \E T \in SpanningTrees(graph) : SumW(result) < SumOver(graph, T)

\* C2: a kruskal() call on a graph with V >= 2 whose edges do not connect the
\* vertices ends in a DisconnectedGraph error, never in a read past the end
\* of the edge list.
C2_DisconnectedGraphError ==
    (V >= 2 /\ InRange(graph) /\ ~Spans(V, EdgePairs(graph)) /\ pc \in {"returned", "raised"}) =>
        /\ pc = "raised"
        /\ calls[Len(calls)].how = "DisconnectedGraph"
        /\ i < Len(graph)

\* C3: the returned edges have non-decreasing weights, edges of equal weight
\* come in the order of their addEdge calls, and the documented example
\* returns (0,1,1),(2,3,1),(1,2,2).
C3_AcceptanceOrder ==
    /\ \A j, k \in 1 .. Len(result) :
           j < k => /\ result[j][3] <= result[k][3]
                    /\ result[j][3] = result[k][3] => resultTag[j] < resultTag[k]
    /\ (V = ExampleV /\ pc = "returned" /\ Inserted = ExampleEdges) =>
           result = << <<0, 1, 1>>, <<2, 3, 1>>, <<1, 2, 2>> >>

\* The example has been run: its two edges of weight 1 are both returned.
C3_Witness ==
    /\ V = ExampleV
    /\ pc = "returned"
    /\ Len(graph) = Len(ExampleEdges)
    /\ Inserted = ExampleEdges
    /\ Len(result) = 3

\* C4: consecutive kruskal() calls with no addEdge in between end the same way
\* with the same edge sequence.
C4_RepeatedCallSameResult ==
    \A k \in 1 .. Len(calls) - 1 : calls[k] = calls[k + 1]

\* Two calls have returned at least two edges each, and the first call's sort
\* moved an edge.
C4_Witness ==
    /\ Len(calls) >= 2
    /\ calls[1].how = "return"
    /\ Len(calls[1].value) >= 2
    /\ tag[1] # 1

\* C5: with V = 0 or V = 1 kruskal() reads no edge, accepts none and returns
\* the empty list, whatever edges were added.
C5_NoVertexNoIteration ==
    V <= 1 =>
        /\ pc # "raised"
        /\ i = 0
        /\ reads = {}
        /\ result = <<>>
        /\ \A k \in 1 .. Len(calls) : calls[k] = Outcome("return", <<>>)

\* A graph of one vertex with edges has been searched.
C5_Witness == V = 1 /\ pc = "returned" /\ Len(graph) >= 2

\* C9: when kruskal() returns with V >= 2 it has accepted V-1 edges, the last
\* edge it read is the last accepted one, and it read exactly the edges before
\* its index.
C9_StopsAtLastAccepted ==
    (V >= 2 /\ pc = "returned") =>
        /\ Len(result) = V - 1
        /\ i >= 1
        /\ i <= Len(graph)
        /\ graph[i] = result[Len(result)]
        /\ tag[i] = resultTag[Len(resultTag)]
        /\ reads = 0 .. i - 1

\* A call returned and left edges unread.
C9_Witness == V >= 2 /\ pc = "returned" /\ i < Len(graph) /\ InRange(graph)

\* C10: inside and after a kruskal() call the parent list is a forest, two
\* vertices have the same root exactly when the accepted edges connect them,
\* and the accepted edges have no cycle and no self-loop.
C10_UnionFindInvariant ==
    pc \in {"loop", "returned", "raised"} =>
        /\ IsForest(parent)
        /\ \A a, b \in 0 .. V - 1 :
               (Climb(parent, a, V) = Climb(parent, b, V)) <=>
                   (b \in Closure({a}, EdgePairs(result)))
        /\ NumComponents(V, EdgePairs(result)) = V - Len(result)
        /\ \A k \in 1 .. Len(result) : result[k][1] # result[k][2]

\* Two edges were accepted, and an edge that is no self-loop was discarded.
C10_Witness ==
    /\ pc = "loop"
    /\ Len(result) >= 2
    /\ \E x \in 0 .. V - 1 : parent[x] # x
    /\ \E k \in 1 .. i :
           /\ graph[k][1] # graph[k][2]
           /\ \A j \in 1 .. Len(resultTag) : resultTag[j] # tag[k]

\* C6: overlaps is true exactly when the smaller right edge exceeds the larger
\* left edge and the smaller bottom edge exceeds the larger top edge; it is
\* symmetric, and rectangles that only touch do not overlap.
C6_OverlapsStrict ==
    ans.op = "overlaps" =>
        LET a == ans.self
            b == ans.other
        IN  /\ ans.value =
                   (/\ Least({a.right, b.right}) > Greatest({a.left, b.left})
                    /\ Least({a.bottom, b.bottom}) > Greatest({a.top, b.top}))
            /\ ans.value = overlaps(b, a)
            /\ (a.right = b.left \/ b.right = a.left \/ a.bottom = b.top \/ b.bottom = a.top)
                   => ans.value = FALSE

\* Two rectangles of positive size with the same vertical range, one starting
\* where the other ends, were compared.
C6_Witness ==
    /\ ans.op = "overlaps"
    /\ ans.self.right = ans.other.left
    /\ ans.self.top = ans.other.top
    /\ ans.self.bottom = ans.other.bottom
    /\ width(ans.self) > 0 /\ height(ans.self) > 0
    /\ width(ans.other) > 0 /\ height(ans.other) > 0
    /\ ans.value = FALSE

\* C8: a rectangle contains itself, containment is transitive, and a
\* rectangle of positive width and height overlaps itself.
C8_ContainsReflexiveTransitive ==
    /\ (ans.op = "contains" /\ ans.self = ans.other) => ans.value
    /\ (ans.op = "contains" /\ ans.value) =>
           \A c \in Rects : contains(ans.other, c) => contains(ans.self, c)
    /\ (ans.op = "overlaps" /\ ans.self = ans.other
            /\ width(ans.self) > 0 /\ height(ans.self) > 0) => ans.value

\* A rectangle was found to contain a different one that contains a third.
C8_Witness ==
    /\ ans.op = "contains"
    /\ ans.value
    /\ ans.self # ans.other
    /\ \E c \in Rects : c # ans.other /\ contains(ans.other, c)

\* C7: a read of .repeating ends with the value most recently assigned (False
\* after construction).
C7_ReadYieldsAssigned ==
    readOutcome # "none" => readOutcome = repeating_

====
